---- MODULE Spec2Model ----
(***************************************************************************)
(* Session manager of the trading client: one client instance, which is    *)
(* either a MarketStreamClient (src/src/websocket_stream/mod.rs) or a      *)
(* WebSocketClient (src/src/websocket/mod.rs).  The instance owns a        *)
(* bounded request channel, a background listener task with its           *)
(* connection handle and pending-request table, and (market stream only)   *)
(* a data channel towards the consumer.  Callers are concurrent tasks that *)
(* invoke facade methods on the instance.  The signing block of            *)
(* request_websocket_api is modelled as a function of its arguments, with  *)
(* a specification of its own (SignSpec).                                  *)
(***************************************************************************)
EXTENDS Integers, Sequences, FiniteSets, TLC

\* ---------------------------------------------------------------- bounds
MaxCalls == 2      \* number of concurrent facade calls on the instance
DataCap == 1       \* capacity of the consumer's data channel
MaxParams == 2     \* number of parameters a caller passes to a signed call
MaxOtherMints == 2  \* ids taken by another MarketStreamClient of the process
SmallCap == 1       \* capacity of the request channel in SmallQueueSpec

\* ------------------------------------------------------ program constants
QueueCap == 100    \* mpsc::channel(100) of the request channel
FirstId == 1       \* AtomicU64::new(1)

Callers == 1..MaxCalls
Ids == 1..MaxCalls
Values == {"v1"}                    \* non-null JSON values of a `result` field
Msgs == {"m1"}                      \* server error messages

VARIABLES
    kind,               \* "stream" : MarketStreamClient, "api" : WebSocketClient
    queue_cap,          \* capacity the request channel was created with
    client_dropped,     \* TRUE once the client, with every request sender, was dropped
    calls,              \* per caller: progress of its facade call and its id
    NEXT_ID,            \* static NEXT_ID of get_next_request_id
    queue,              \* the request channel (mpsc), oldest first
    ws_stream_opt,      \* TRUE iff the listener holds Some(ws_stream)
    pc,                 \* where the listener task is suspended
    pending_requests,   \* the listener's HashMap: id -> oneshot sender (its caller)
    timeout_reconnect,  \* flag of the api listener
    res,                \* per caller: what its oneshot receiver was sent
    data_chan,          \* the consumer's data channel, oldest first
    consumer_open,      \* FALSE once the data receiver was dropped
    held,               \* message the listener is blocked publishing
    writes,             \* per caller: frames the listener wrote for its call (history)
    sign_in,            \* arguments and clock of the signed call being made
    sign_out,           \* what the latest signed call signed
    last                \* tag of the last event the listener handled (history)

vars == <<kind, queue_cap, client_dropped, calls, NEXT_ID, queue, ws_stream_opt, pc,
          pending_requests,
          timeout_reconnect, res, data_chan, consumer_open, held, writes, sign_in,
          sign_out, last>>

signVars == <<sign_in, sign_out>>
clientVars == <<kind, queue_cap, client_dropped>>
sessionVars == <<kind, queue_cap, client_dropped, calls, NEXT_ID, queue, ws_stream_opt, pc,
                 pending_requests,
                 timeout_reconnect, res, data_chan, consumer_open, held, writes, last>>

\* ------------------------------------------------------------- resolutions
\* Result<Value, String> delivered through a oneshot channel.
Ok(v) == [tag |-> "Ok", text |-> v, id |-> 0]
SendFailed == [tag |-> "Err", text |-> "Failed to send WS message", id |-> 0]
ApiSendFailed == [tag |-> "Err", text |-> "Failed to send WS API message", id |-> 0]
ConnectionLost == [tag |-> "Err", text |-> "WebSocket connection lost during request.", id |-> 0]
StreamError(i, m) == [tag |-> "Err", text |-> m, id |-> i]
ApiError(m) == [tag |-> "Err", text |-> m, id |-> 0]

\* ------------------------------------------------------------------ frames
\* A JSON text frame, reduced to the fields the two decoders look at.
\*   idk/id : the `id` member: absent, null, of a type that is not the
\*            client's id type ("other"), or a correlation id ("token")
\*   status : the `status` member ("none", "200" or another number)
\*   result : the `result` member ("none" when absent or null)
\*   error  : the `msg` of a nested `error` object ("none" when absent)
\*   msg    : top-level `code` and `msg` members ("none" when absent)
\*   stream : TRUE iff both `stream` and `data` members are present
FrameIds == [idk : {"absent", "null", "other"}, id : {0}] \cup [idk : {"token"}, id : Ids]
Frame(i, s, r, e, m, st) ==
    [idk |-> i.idk, id |-> i.id, status |-> s, result |-> r, error |-> e, msg |-> m,
     stream |-> st]
\* The frames the server sends: results and errors of both wire forms, with
\* any `status` and any `id`, and stream pushes with or without an `id`.
Frames ==
    { Frame(i, s, r, "none", "none", FALSE) :
        i \in FrameIds, s \in {"none", "200", "400"}, r \in {"none"} \cup Values }
    \cup { Frame(i, s, "none", e, "none", FALSE) :
        i \in FrameIds, s \in {"none", "200", "400"}, e \in Msgs }
    \cup { Frame(i, s, "none", "none", m, FALSE) :
        i \in FrameIds, s \in {"none", "200", "400"}, m \in Msgs }
    \cup { Frame(i, "none", "none", "none", "none", TRUE) : i \in FrameIds }

\* HashMap operations on the pending table.
Insert(table, id, tx) == [k \in DOMAIN table \cup {id} |-> IF k = id THEN tx ELSE table[k]]
Remove(table, id) == [k \in DOMAIN table \ {id} |-> table[k]]
Empty == [k \in {} |-> 0]

\* Send that hands the value to a receiver that was dropped.
Send_ToDropped(r, tx, value) == [r EXCEPT ![tx] = Append(@, value)]

\* `let _ = tx.send(value)` on a oneshot sender: the receiver gets the value,
\* unless it was dropped: then send returns Err, which is discarded.
Send(r, tx, value) ==
    IF calls[tx].st = "abandoned" THEN r ELSE [r EXCEPT ![tx] = Append(@, value)]

\* ----------------------------------------------------------------- signing
\* A serde_json::Value: a number (as its decimal digits) or a string (as its
\* characters).
JsonNum(digits) == [t |-> "Number", v |-> digits]
JsonStr(chars) == [t |-> "String", v |-> chars]
JsonValues == {JsonNum(<<"5">>), JsonStr(<<"5">>), JsonStr(<<"7">>)}

\* Every key a signed map can hold, in ascending byte order (the order of a
\* BTreeMap<String, String>).
KeyOrder ==
    <<"activationPrice", "apiKey", "callbackRate", "newClientOrderId", "orderId",
      "origClientOrderId", "price", "quantity", "side", "signature", "stopPrice", "symbol",
      "timestamp">>
ParamNames == <<"symbol", "price", "quantity">>
ParamKeys == {ParamNames[i] : i \in 1..MaxParams}
Timestamps == {1000, 2000}
ApiKeys == {"k1"}
SecretKeys == {"s1", "s2"}

\* The JSON objects a caller can pass: its members in the order the caller
\* inserted them, keys distinct.
ParamSeqs ==
    { q \in UNION {[1..n -> [k : ParamKeys, v : JsonValues]] : n \in 0..MaxParams} :
        \A i, j \in 1..Len(q) : i # j => q[i].k # q[j].k }

\* Value::to_string(): the JSON text, as characters.
to_string(j) ==
    IF j.t = "String" THEN <<"\"">> \o j.v \o <<"\"">> ELSE j.v

\* trim_matches that leaves the text as it is.
trim_matches_Keep(cs) == cs

\* str::trim_matches('"'): the quotes at both ends are removed.
RECURSIVE TrimStart(_)
TrimStart(cs) == IF cs # <<>> /\ Head(cs) = "\"" THEN TrimStart(Tail(cs)) ELSE cs
RECURSIVE TrimEnd(_)
TrimEnd(cs) ==
    IF cs # <<>> /\ cs[Len(cs)] = "\"" THEN TrimEnd(SubSeq(cs, 1, Len(cs) - 1)) ELSE cs
trim_matches(cs) == TrimEnd(TrimStart(cs))

\* The characters as one string.
RECURSIVE Str(_)
Str(cs) == IF cs = <<>> THEN "" ELSE Head(cs) \o Str(Tail(cs))

\* `for (k, v) in map { signable_params.insert(k, ..) }`, then the inserts
\* of timestamp and apiKey: a later insert of a key replaces the earlier.
RECURSIVE InsertAll(_, _)
InsertAll(map, q) ==
    IF q = <<>> THEN map
    ELSE InsertAll(Insert(map, Head(q).k, Str(trim_matches(to_string(Head(q).v)))), Tail(q))
signable_params(in) ==
    Insert(Insert(InsertAll(Empty, in.params), "timestamp", ToString(in.timestamp)),
           "apiKey", in.api_key)

\* signable_params.iter().map(|(k, v)| format!("{}={}", k, v)).join("&"):
\* the entries taken in the order `keys`.
RECURSIVE Join(_, _)
Join(map, keys) ==
    IF keys = <<>> THEN ""
    ELSE IF Head(keys) \notin DOMAIN map THEN Join(map, Tail(keys))
    ELSE LET rest == Join(map, Tail(keys))
         IN  Head(keys) \o "=" \o map[Head(keys)] \o (IF rest = "" THEN "" ELSE "&" \o rest)

\* query_string that joins the entries in the order the caller inserted them.
query_string_Unsorted(in) ==
    Join(signable_params(in),
         [i \in 1..Len(in.params) |-> in.params[i].k] \o <<"timestamp", "apiKey">>)

\* The string that is signed: the BTreeMap iterates in key order.
query_string(in) == Join(signable_params(in), KeyOrder)

\* sign_payload: hex of HMAC-SHA256 under the secret key, a function of key
\* and message that is taken to be free of collisions.
sign_payload(secret_key, message) == "hmac_sha256(" \o secret_key \o "," \o message \o ")"

\* The signing block of request_websocket_api.
SignRequest(in) ==
    [signed |-> TRUE, query_string |-> query_string(in),
     signature |-> sign_payload(in.secret_key, query_string(in))]
NotSigned == [signed |-> FALSE, query_string |-> "", signature |-> ""]

\* A signed call is made with the arguments at hand.
SignCall ==
    /\ sign_out' = SignRequest(sign_in)
    /\ UNCHANGED <<sign_in, sessionVars>>

\* RestClient::get_signed_rest_request: the pairs `k=v` in the order the
\* caller passed them, then `timestamp=..`, joined with "&".  The values are
\* the caller's strings; the api key travels in a header.
RECURSIVE rest_query_pairs(_)
rest_query_pairs(q) ==
    IF q = <<>> THEN ""
    ELSE Head(q).k \o "=" \o Str(Head(q).v.v) \o "&" \o rest_query_pairs(Tail(q))
rest_query_string(in) == rest_query_pairs(in.params) \o "timestamp=" \o ToString(in.timestamp)

\* The signing block of get_signed_rest_request.
RestSignRequest(in) ==
    [signed |-> TRUE, query_string |-> rest_query_string(in),
     signature |-> sign_payload(in.secret_key, rest_query_string(in))]

\* A signed REST call is made with the arguments at hand.
RestCall ==
    /\ sign_out' = RestSignRequest(sign_in)
    /\ UNCHANGED <<sign_in, sessionVars>>

\* The next call passes the same members, inserted in another order.
Reinsert ==
    /\ \E f \in Permutations(1..Len(sign_in.params)) :
          /\ \E i \in DOMAIN f : f[i] # i
          /\ sign_in' = [sign_in EXCEPT !.params = [i \in 1..Len(@) |-> @[f[i]]]]
    /\ UNCHANGED <<sign_out, sessionVars>>

\* The next call passes other arguments: a member's value changed, a member
\* added or a member removed.
SetParam ==
    /\ \/ \E i \in 1..Len(sign_in.params) : \E v \in JsonValues \ {sign_in.params[i].v} :
             sign_in' = [sign_in EXCEPT !.params[i].v = v]
       \/ /\ Len(sign_in.params) < MaxParams
          /\ \E k \in ParamKeys \ {sign_in.params[i].k : i \in 1..Len(sign_in.params)} :
             \E v \in JsonValues :
                sign_in' = [sign_in EXCEPT !.params = Append(@, [k |-> k, v |-> v])]
       \/ \E i \in 1..Len(sign_in.params) :
             sign_in' = [sign_in EXCEPT !.params =
                            SubSeq(@, 1, i - 1) \o SubSeq(@, i + 1, Len(@))]
    /\ UNCHANGED <<sign_out, sessionVars>>

\* SystemTime::now() of the next call.
ClockTick ==
    /\ \E t \in Timestamps \ {sign_in.timestamp} : sign_in' = [sign_in EXCEPT !.timestamp = t]
    /\ UNCHANGED <<sign_out, sessionVars>>

\* The members request_websocket_api inserts itself.
Reserved == {"timestamp", "apiKey", "signature"}

\* The JSON objects of a caller that also passes members with those names.
ReservedParamSeqs ==
    { q \in UNION {[1..n -> [k : Reserved \cup {"symbol"}, v : JsonValues]] : n \in 0..MaxParams} :
        \A i, j \in 1..Len(q) : i # j => q[i].k # q[j].k }

\* `map.insert(..)` of the object `params` for each member the caller passed.
RECURSIVE ObjectOf(_, _)
ObjectOf(map, q) ==
    IF q = <<>> THEN map ELSE ObjectOf(Insert(map, Head(q).k, Head(q).v), Tail(q))

\* The object `params` of the outbound frame: the caller's members, then the
\* inserts of apiKey, timestamp and signature.
request_params(in) ==
    Insert(Insert(Insert(ObjectOf(Empty, in.params), "apiKey", JsonStr(<<in.api_key>>)),
                  "timestamp", JsonNum(<<ToString(in.timestamp)>>)),
           "signature", JsonStr(<<sign_payload(in.secret_key, query_string(in))>>))

\* The next call passes another value for a member with a reserved name.
SetReserved ==
    /\ \E i \in 1..Len(sign_in.params) : \E v \in JsonValues \ {sign_in.params[i].v} :
          /\ sign_in.params[i].k \in Reserved
          /\ sign_in' = [sign_in EXCEPT !.params[i].v = v]
    /\ UNCHANGED <<sign_out, sessionVars>>

\* ------------------------------------------------------------ facade calls
Waiting(c) == calls[c].st = "waiting"

\* get_next_request_id that reads the counter and leaves it as it is.
get_next_request_id_Load(c) ==
    /\ kind = "stream" /\ ~client_dropped
    /\ calls[c].st = "idle"
    /\ calls' = [calls EXCEPT ![c] = [st |-> "minted", id |-> NEXT_ID]]
    /\ NEXT_ID' = NEXT_ID
    /\ last' = last
    /\ UNCHANGED <<clientVars, queue, ws_stream_opt, pc, pending_requests, timeout_reconnect,
                   res, data_chan, consumer_open, held, writes, signVars>>

\* get_next_request_id: NEXT_ID.fetch_add(1, SeqCst) on the static counter.
get_next_request_id(c) ==
    /\ kind = "stream" /\ ~client_dropped
    /\ calls[c].st = "idle"
    /\ calls' = [calls EXCEPT ![c] = [st |-> "minted", id |-> NEXT_ID]]
    /\ NEXT_ID' = NEXT_ID + 1
    /\ last' = last
    /\ UNCHANGED <<clientVars, queue, ws_stream_opt, pc, pending_requests, timeout_reconnect,
                   res, data_chan, consumer_open, held, writes, signVars>>

\* send_stream_request with try_send: a request that finds the channel full
\* is dropped and the caller goes on to await its receiver.
send_stream_request_TrySend(c) ==
    /\ kind = "stream"
    /\ calls[c].st = "minted"
    /\ queue' = IF Len(queue) < queue_cap
                THEN Append(queue, [id |-> calls[c].id, tx |-> c]) ELSE queue
    /\ calls' = [calls EXCEPT ![c].st = "waiting"]
    /\ last' = last
    /\ UNCHANGED <<clientVars, NEXT_ID, ws_stream_opt, pc, pending_requests,
                   timeout_reconnect, res, data_chan, consumer_open, held, writes, signVars>>

\* send_stream_request: the request, with a fresh oneshot sender, enters the
\* request channel; the caller then awaits its oneshot receiver.
send_stream_request(c) ==
    /\ kind = "stream"
    /\ calls[c].st = "minted"
    /\ Len(queue) < queue_cap
    /\ queue' = Append(queue, [id |-> calls[c].id, tx |-> c])
    /\ calls' = [calls EXCEPT ![c].st = "waiting"]
    /\ last' = last
    /\ UNCHANGED <<clientVars, NEXT_ID, ws_stream_opt, pc, pending_requests, timeout_reconnect,
                   res, data_chan, consumer_open, held, writes, signVars>>

\* Uuid::new_v4(): an id no other call has; the one drawn by caller c's call
\* is named c.
NewUuid(c) == c

\* request_websocket_api that submits the request before it builds the
\* signed parameters.
request_websocket_api_SubmitFirst(c) ==
    /\ kind = "api" /\ ~client_dropped
    /\ calls[c].st = "idle"
    /\ Len(queue) < queue_cap
    /\ \E built \in {"signed", "clock_error", "not_object"} :
          calls' = [calls EXCEPT ![c] = [st |-> IF built = "signed" THEN "waiting" ELSE "failed",
                                         id |-> NewUuid(c)]]
    /\ queue' = Append(queue, [id |-> NewUuid(c), tx |-> c])
    /\ last' = last
    /\ UNCHANGED <<clientVars, NEXT_ID, ws_stream_opt, pc, pending_requests, timeout_reconnect,
                   res, data_chan, consumer_open, held, writes, signVars>>

\* request_websocket_api: a fresh UUID is the id; building the signed
\* parameters fails (the clock is before the epoch, or params is not an
\* object) and the call returns the error, or the request enters the request
\* channel and the caller awaits its oneshot receiver.
request_websocket_api(c) ==
    /\ kind = "api" /\ ~client_dropped
    /\ calls[c].st = "idle"
    /\ \E built \in {"signed", "clock_error", "not_object"} :
          IF built = "signed"
          THEN /\ Len(queue) < queue_cap
               /\ calls' = [calls EXCEPT ![c] = [st |-> "waiting", id |-> NewUuid(c)]]
               /\ queue' = Append(queue, [id |-> NewUuid(c), tx |-> c])
          ELSE /\ calls' = [calls EXCEPT ![c] = [st |-> "failed", id |-> NewUuid(c)]]
               /\ queue' = queue
    /\ last' = last
    /\ UNCHANGED <<clientVars, NEXT_ID, ws_stream_opt, pc, pending_requests, timeout_reconnect,
                   res, data_chan, consumer_open, held, writes, signVars>>

\* ----------------------------------------------------------- order facade
\* The arguments of cancel_order and modify_order: Option<u64> order ids (as
\* digits), Option<&str> client order ids, symbols, sides, and the fields a
\* modification can amend, in the order modify_order inserts them; a call
\* amends none of them, one, or price and quantity.
OrderIds == {"none", "5"}
ClientIds == {"none", "7"}
Symbols == {<<"b">>, <<"B">>}
Sides == {"BUY", "SELL"}
ModNames == <<"quantity", "price", "stopPrice", "activationPrice", "callbackRate">>
Mods == {{}, {1, 2}} \cup {{n} : n \in 1..Len(ModNames)}

\* str::to_uppercase.
to_uppercase(cs) == [i \in DOMAIN cs |-> IF cs[i] = "b" THEN "B" ELSE cs[i]]

Member(k, v) == [k |-> k, v |-> v]

\* IdentifyOrder that sends every identifier that was given.
IdentifyOrder_Both(order_id, client_id) ==
    (IF order_id # "none" THEN <<Member("orderId", JsonNum(<<order_id>>))>> ELSE <<>>)
    \o (IF client_id # "none" THEN <<Member("origClientOrderId", JsonStr(<<client_id>>))>>
        ELSE <<>>)

\* `if let Some(id) = order_id {..} else if let Some(client_id) = .. {..}`:
\* the member that identifies the order, none if neither was given.
IdentifyOrder(order_id, client_id) ==
    IF order_id # "none" THEN <<Member("orderId", JsonNum(<<order_id>>))>>
    ELSE IF client_id # "none" THEN <<Member("origClientOrderId", JsonStr(<<client_id>>))>>
    ELSE <<>>

\* The params cancel_order builds, or its early return.
cancel_order_params(symbol, order_id, client_id) ==
    [ok |-> order_id # "none" \/ client_id # "none",
     params |-> <<Member("symbol", JsonStr(to_uppercase(symbol)))>>
                \o IdentifyOrder(order_id, client_id)]

\* The fields of a modification, each as the string of its f64.
RECURSIVE Modifications(_, _)
Modifications(mods, n) ==
    IF n > Len(ModNames) THEN <<>>
    ELSE (IF n \in mods THEN <<Member(ModNames[n], JsonStr(<<"5">>))>> ELSE <<>>)
         \o Modifications(mods, n + 1)

\* The params modify_order builds, or its early return.
modify_order_params(symbol, side, order_id, client_id, mods, new_id) ==
    [ok |-> (order_id # "none" \/ client_id # "none") /\ mods # {},
     params |-> <<Member("symbol", JsonStr(to_uppercase(symbol))),
                  Member("side", JsonStr(<<side>>))>>
                \o IdentifyOrder(order_id, client_id)
                \o Modifications(mods, 1)
                \o (IF new_id # "none" THEN <<Member("newClientOrderId", JsonStr(<<new_id>>))>>
                    ELSE <<>>)]

\* The balance check of modify_order applies to a buy that amends price or
\* quantity.
ChecksBalance(side, mods) == side = "BUY" /\ mods \cap {1, 2} # {}

\* The facade method returns its error before it calls request_websocket_api.
ReturnsEarly(c) ==
    /\ calls' = [calls EXCEPT ![c].st = "failed"]
    /\ UNCHANGED <<queue, signVars>>

\* request_websocket_api("order.*", params): the call is signed (or the
\* clock fails) and the request enters the request channel.
SubmitOrder(c, params) ==
    \E built \in {"signed", "clock_error"} :
        IF built = "signed"
        THEN /\ Len(queue) < queue_cap
             /\ sign_in' = [sign_in EXCEPT !.params = params]
             /\ sign_out' = SignRequest([sign_in EXCEPT !.params = params])
             /\ calls' = [calls EXCEPT ![c] = [st |-> "waiting", id |-> NewUuid(c)]]
             /\ queue' = Append(queue, [id |-> NewUuid(c), tx |-> c])
        ELSE /\ calls' = [calls EXCEPT ![c] = [st |-> "failed", id |-> NewUuid(c)]]
             /\ UNCHANGED <<queue, signVars>>

cancel_order(c, symbol, order_id, client_id) ==
    /\ kind = "api" /\ ~client_dropped
    /\ calls[c].st = "idle"
    /\ LET built == cancel_order_params(symbol, order_id, client_id)
       IN  IF built.ok THEN SubmitOrder(c, built.params) ELSE ReturnsEarly(c)
    /\ last' = last
    /\ UNCHANGED <<clientVars, NEXT_ID, ws_stream_opt, pc, pending_requests, timeout_reconnect,
                   res, data_chan, consumer_open, held, writes>>

\* modify_order: the balance check (a query that can fail or find too
\* little), the building of params with its early returns, the call.
modify_order(c, symbol, side, order_id, client_id, mods, new_id) ==
    /\ kind = "api" /\ ~client_dropped
    /\ calls[c].st = "idle"
    /\ \E balance \in {"enough", "error"} :
          LET built == modify_order_params(symbol, side, order_id, client_id, mods, new_id)
          IN  IF ChecksBalance(side, mods) /\ balance = "error" THEN ReturnsEarly(c)
              ELSE IF built.ok THEN SubmitOrder(c, built.params)
              ELSE ReturnsEarly(c)
    /\ last' = last
    /\ UNCHANGED <<clientVars, NEXT_ID, ws_stream_opt, pc, pending_requests, timeout_reconnect,
                   res, data_chan, consumer_open, held, writes>>

\* The caller drops the future of its call while it awaits the response
\* (a timeout around the call, a cancelled task): the oneshot receiver is
\* dropped with it.  Nothing is sent to the listener.
Abandon(c) ==
    /\ Waiting(c) /\ res[c] = <<>>
    /\ calls' = [calls EXCEPT ![c].st = "abandoned"]
    /\ last' = last
    /\ UNCHANGED <<clientVars, NEXT_ID, queue, ws_stream_opt, pc, pending_requests,
                   timeout_reconnect, res, data_chan, consumer_open, held, writes, signVars>>

\* The client is dropped, and with it the only sender of the request
\* channel.  Every call borrows the client, so none is in flight; the
\* listener task was spawned and is not aborted by the drop of its handle.
DropClient ==
    /\ ~client_dropped
    /\ \A c \in Callers : calls[c].st \in {"idle", "failed"} \/ res[c] # <<>>
    /\ client_dropped' = TRUE
    /\ last' = last
    /\ UNCHANGED <<kind, queue_cap, calls, NEXT_ID, queue, ws_stream_opt, pc, pending_requests,
                   timeout_reconnect, res, data_chan, consumer_open, held, writes, signVars>>

\* ------------------------------------------------- listener: pure handlers
\* Every handler of the select! returns the new table, the new resolutions,
\* need_reconnect, whether it left through `continue`, and what it publishes.
Handled(p, r, need, cont, pub, tag) ==
    [pending |-> p, res |-> r, need_reconnect |-> need, continue |-> cont,
     publish |-> pub, tag |-> tag]

\* StreamOnRequest that writes the frame and leaves the table as it is.
StreamOnRequest_Unregistered(p, r, req, ok) ==
    IF ok
    THEN Handled(p, r, FALSE, FALSE, "none", "written")
    ELSE Handled(p, Send(r, req.tx, SendFailed), TRUE, TRUE, "none", "write_failed")

\* Branch `req = ws_request_receiver.recv()` of the market-stream listener.
StreamOnRequest(p, r, req, ok) ==
    IF ok
    THEN Handled(Insert(p, req.id, req.tx), r, FALSE, FALSE, "none", "written")
    ELSE Handled(p, Send(r, req.tx, SendFailed), TRUE, TRUE, "none", "write_failed")

\* ApiOnRequest that registers the request before it writes the frame.
ApiOnRequest_InsertFirst(p, r, req, ok) ==
    IF ok
    THEN Handled(Insert(p, req.id, req.tx), r, FALSE, FALSE, "none", "written")
    ELSE Handled(Insert(p, req.id, req.tx), Send(r, req.tx, ApiSendFailed), TRUE, TRUE,
                 "none", "write_failed")

\* Branch `req = ws_request_receiver.recv()` of the api listener.
ApiOnRequest(p, r, req, ok) ==
    IF ok
    THEN Handled(Insert(p, req.id, req.tx), r, FALSE, FALSE, "none", "written")
    ELSE Handled(p, Send(r, req.tx, ApiSendFailed), TRUE, TRUE, "none", "write_failed")

\* serde_json::from_str::<BinanceWsMessage>: the untagged enum takes the
\* first variant that deserializes, in declaration order.  Result needs a
\* u64 `id` (`result` is optional, other members are ignored); Error needs
\* `code` and `msg` and an absent or null `id`; StreamData needs `stream`
\* and `data`; Raw takes any JSON value.
StreamDecode(f) ==
    IF f.idk = "token"
    THEN [variant |-> "Result", id |-> f.id, result |-> f.result, msg |-> "none"]
    ELSE IF f.msg # "none" /\ f.idk \in {"absent", "null"}
    THEN [variant |-> "Error", id |-> 0, result |-> "none", msg |-> f.msg]
    ELSE IF f.stream
    THEN [variant |-> "StreamData", id |-> 0, result |-> "none", msg |-> "none"]
    ELSE [variant |-> "Raw", id |-> 0, result |-> "none", msg |-> "none"]

\* UnwrapOrDefault that hands on the absent result as it is.
UnwrapOrDefault_Keep(v) == v

\* Option<Value>::unwrap_or_default: None (absent or null) is Value::Null.
UnwrapOrDefault(v) == IF v = "none" THEN "null" ELSE v

\* StreamOnMessage that answers the oldest pending request (the lowest id)
\* with whatever result arrives.
StreamOnMessage_ByPosition(p, r, m) ==
    IF m.variant = "Result" /\ DOMAIN p # {}
    THEN LET k == CHOOSE x \in DOMAIN p : \A y \in DOMAIN p : x <= y
         IN  Handled(Remove(p, k), Send(r, p[k], Ok(UnwrapOrDefault(m.result))),
                     FALSE, FALSE, "none", "resolved")
    ELSE Handled(p, r, FALSE, FALSE, IF m.variant \in {"StreamData", "Raw"} THEN m.variant ELSE "none",
                 IF m.variant \in {"StreamData", "Raw"} THEN "publish" ELSE "unmatched")

\* Branch `msg = read.next()` of the market-stream listener, text frame that
\* decodes to `m`.
StreamOnMessage(p, r, m) ==
    IF m.variant = "Result"
    THEN IF m.id \in DOMAIN p
         THEN Handled(Remove(p, m.id), Send(r, p[m.id], Ok(UnwrapOrDefault(m.result))),
                      FALSE, FALSE, "none", "resolved")
         ELSE Handled(p, r, FALSE, FALSE, "none", "unmatched")
    ELSE IF m.variant = "Error"
    THEN IF m.id # 0
         THEN IF m.id \in DOMAIN p
              THEN Handled(Remove(p, m.id), Send(r, p[m.id], StreamError(m.id, m.msg)),
                           FALSE, FALSE, "none", "resolved")
              ELSE Handled(p, r, FALSE, FALSE, "none", "unmatched")
         ELSE Handled(p, r, FALSE, FALSE, "none", "unmatched")
    ELSE Handled(p, r, FALSE, FALSE, m.variant, "publish")

\* What the api listener reads of a frame parsed as a serde_json::Value: the
\* `id` (as_str / as_u64), whether `status` is the number 200, `result`, and
\* the `msg` of the `error` object.
ApiDecode(f) ==
    [idk |-> f.idk, id |-> f.id, status |-> IF f.status = "200" THEN "200" ELSE "none",
     result |-> f.result, error |-> f.error]

\* ApiOnMessage that takes a frame with a `result` for a success, whatever
\* its status.
ApiOnMessage_ResultMeansSuccess(p, r, f) ==
    IF f.idk = "token" /\ f.id \in DOMAIN p
    THEN IF f.status = "200" \/ f.result # "none"
         THEN Handled(Remove(p, f.id), Send(r, p[f.id], Ok(UnwrapOrDefault(f.result))),
                      FALSE, FALSE, "none", "resolved")
         ELSE Handled(Remove(p, f.id),
                      Send(r, p[f.id],
                           ApiError(IF f.error # "none" THEN f.error ELSE "Unknown error")),
                      FALSE, FALSE, "none", "resolved")
    ELSE Handled(p, r, FALSE, f.idk = "null", "none", "unmatched")

\* ApiOnMessage that answers a status-200 frame with an empty success value.
ApiOnMessage_NullResult(p, r, f) ==
    IF f.idk = "token" /\ f.id \in DOMAIN p
    THEN IF f.status = "200"
         THEN Handled(Remove(p, f.id), Send(r, p[f.id], Ok("null")), FALSE, FALSE, "none", "resolved")
         ELSE Handled(Remove(p, f.id),
                      Send(r, p[f.id], ApiError(IF f.error # "none" THEN f.error ELSE "Unknown error")),
                      FALSE, FALSE, "none", "resolved")
    ELSE Handled(p, r, FALSE, f.idk = "null", "none", "unmatched")

\* Branch `msg = read.next()` of the api listener, text frame that parsed to
\* a JSON value with the members `f`.
ApiOnMessage(p, r, f) ==
    IF f.idk = "absent"
    THEN Handled(p, r, FALSE, FALSE, "none", "unmatched")
    ELSE IF f.idk = "null"
    THEN Handled(p, r, FALSE, TRUE, "none", "unmatched")
    ELSE IF f.idk = "token" /\ f.id \in DOMAIN p
    THEN IF f.status = "200"
         THEN Handled(Remove(p, f.id), Send(r, p[f.id], Ok(UnwrapOrDefault(f.result))),
                      FALSE, FALSE, "none", "resolved")
         ELSE Handled(Remove(p, f.id),
                      Send(r, p[f.id], ApiError(IF f.error # "none" THEN f.error ELSE "Unknown error")),
                      FALSE, FALSE, "none", "resolved")
    ELSE Handled(p, r, FALSE, FALSE, "none", "unmatched")

\* `ws_request_receiver.recv()` returned None (both listeners): logged,
\* need_reconnect = true.
OnChannelClosed(p, r) == Handled(p, r, TRUE, FALSE, "none", "channel_closed")

\* Close frame, read error or end of the stream (both listeners).
OnLost(p, r) == Handled(p, r, TRUE, FALSE, "none", "lost")

\* StreamOnIdle that only logs and leaves need_reconnect false.
StreamOnIdle_LogOnly(p, r) == Handled(p, r, FALSE, FALSE, "none", "idle_timeout")

\* The 60 s sleep of the market-stream select! completed.
StreamOnIdle(p, r) == Handled(p, r, TRUE, FALSE, "none", "idle_timeout")

\* `for (_, tx) in pending_requests.drain() { tx.send(Err(..)) }`
Drain(p, r) ==
    [c \in Callers |->
        IF calls[c].st = "abandoned" THEN r[c]
        ELSE r[c] \o [i \in 1..Cardinality({k \in DOMAIN p : p[k] = c}) |-> ConnectionLost]]

\* StreamEndOfIteration that fails the pending callers and keeps their
\* entries in the table.
StreamEndOfIteration_KeepTable(h) ==
    IF h.need_reconnect /\ ~h.continue
    THEN [ws |-> FALSE, pending |-> h.pending, res |-> Drain(h.pending, h.res)]
    ELSE [ws |-> TRUE, pending |-> h.pending, res |-> h.res]

\* StreamEndOfIteration without the drain of the pending table.
StreamEndOfIteration_NoDrain(h) ==
    IF h.need_reconnect /\ ~h.continue
    THEN [ws |-> FALSE, pending |-> h.pending, res |-> h.res]
    ELSE [ws |-> TRUE, pending |-> h.pending, res |-> h.res]

\* After the select! of the market-stream listener: `if need_reconnect`,
\* which a handler that left through `continue` does not reach.
StreamEndOfIteration(h) ==
    IF h.need_reconnect /\ ~h.continue
    THEN [ws |-> FALSE, pending |-> Empty, res |-> Drain(h.pending, h.res)]
    ELSE [ws |-> TRUE, pending |-> h.pending, res |-> h.res]

\* After the select! of the api listener: `if need_reconnect`.
ApiEndOfIteration(h) ==
    IF h.need_reconnect /\ ~h.continue
    THEN [ws |-> FALSE, pending |-> h.pending, res |-> h.res]
    ELSE [ws |-> TRUE, pending |-> h.pending, res |-> h.res]

\* Iterate that goes on to select! without the connect block at the top of
\* the loop.
Iterate_NoConnect(e, tag) ==
    /\ ws_stream_opt' = e.ws
    /\ pending_requests' = e.pending
    /\ res' = e.res
    /\ pc' = "select"
    /\ held' = "none"
    /\ last' = tag

\* The loop iteration ends and the next one begins: with a connection the
\* listener is back in select! (with a new 60 s sleep), without one it connects.
Iterate(e, tag) ==
    /\ ws_stream_opt' = e.ws
    /\ pending_requests' = e.pending
    /\ res' = e.res
    /\ pc' = IF e.ws THEN "select" ELSE "connecting"
    /\ held' = "none"
    /\ last' = tag

\* -------------------------------------------------------- listener: steps
\* What belongs to the callers' side: no step of the listener changes it.
callerVars == <<clientVars, calls, NEXT_ID, signVars>>

\* ConnectOk that writes the frames of the earlier requests again on the new
\* connection.
ConnectOk_Replay ==
    /\ pc = "connecting"
    /\ ws_stream_opt' = TRUE
    /\ pc' = "select"
    /\ last' = "connected"
    /\ writes' = [c \in Callers |-> IF writes[c] = 1 THEN 2 ELSE writes[c]]
    /\ UNCHANGED <<callerVars, queue, pending_requests, timeout_reconnect, res,
                   data_chan, consumer_open, held>>

\* connect_async succeeded: ws_stream_opt = Some(ws_stream), on to select!.
ConnectOk ==
    /\ pc = "connecting"
    /\ ws_stream_opt' = TRUE
    /\ pc' = "select"
    /\ last' = "connected"
    /\ UNCHANGED <<callerVars, writes, queue, pending_requests, timeout_reconnect, res,
                   data_chan, consumer_open, held>>

\* ConnectFail that goes straight to the next attempt, without the sleep.
ConnectFail_NoBackoff ==
    /\ pc = "connecting"
    /\ pc' = "connecting"
    /\ last' = "connect_failed"
    /\ UNCHANGED <<callerVars, writes, queue, ws_stream_opt, pending_requests, timeout_reconnect,
                   res, data_chan, consumer_open, held>>

\* connect_async failed: sleep 5 s, then `continue`.
ConnectFail ==
    /\ pc = "connecting"
    /\ pc' = "backoff"
    /\ last' = "connect_failed"
    /\ UNCHANGED <<callerVars, writes, queue, ws_stream_opt, pending_requests, timeout_reconnect,
                   res, data_chan, consumer_open, held>>

\* The 5 s sleep is over: next loop iteration, next connect attempt.
BackoffDone ==
    /\ pc = "backoff"
    /\ pc' = "connecting"
    /\ last' = "backoff_done"
    /\ UNCHANGED <<callerVars, writes, queue, ws_stream_opt, pending_requests, timeout_reconnect,
                   res, data_chan, consumer_open, held>>

\* StreamHandleRequest that takes the newest request of the channel.
StreamHandleRequest_Newest ==
    /\ kind = "stream" /\ pc = "select" /\ queue # <<>>
    /\ \E ok \in BOOLEAN :
         LET h == StreamOnRequest(pending_requests, res, queue[Len(queue)], ok)
         IN  Iterate(StreamEndOfIteration(h), h.tag)
    /\ queue' = SubSeq(queue, 1, Len(queue) - 1)
    /\ writes' = [writes EXCEPT ![queue[Len(queue)].tx] = @ + 1]
    /\ UNCHANGED <<callerVars, timeout_reconnect, data_chan, consumer_open>>

\* select! takes a request from the channel and writes its frame; the write
\* succeeds or fails as the transport decides.
StreamHandleRequest ==
    /\ kind = "stream" /\ pc = "select" /\ queue # <<>>
    /\ \E ok \in BOOLEAN :
         LET h == StreamOnRequest(pending_requests, res, Head(queue), ok)
         IN  Iterate(StreamEndOfIteration(h), h.tag)
    /\ queue' = Tail(queue)
    /\ writes' = [writes EXCEPT ![Head(queue).tx] = @ + 1]
    /\ UNCHANGED <<callerVars, timeout_reconnect, data_chan, consumer_open>>

ApiHandleRequest ==
    /\ kind = "api" /\ pc = "select" /\ queue # <<>>
    /\ \E ok \in BOOLEAN :
         LET h == ApiOnRequest(pending_requests, res, Head(queue), ok)
         IN  Iterate(ApiEndOfIteration(h), h.tag)
    /\ queue' = Tail(queue)
    /\ writes' = [writes EXCEPT ![Head(queue).tx] = @ + 1]
    /\ UNCHANGED <<callerVars, timeout_reconnect, data_chan, consumer_open>>

\* data_sender.send(msg).await returned: Err when the receiver is gone
\* (need_reconnect = true), Ok when the message entered the channel.
\* Published that logs the error of a send to a dropped receiver and goes on.
Published_IgnoreError(h) ==
    IF consumer_open
    THEN /\ data_chan' = Append(data_chan, h.publish)
         /\ Iterate(StreamEndOfIteration(h), IF h.tag = "resumed" THEN "resumed" ELSE "published")
    ELSE /\ data_chan' = data_chan
         /\ Iterate(StreamEndOfIteration(h), "consumer_gone")

Published(h) ==
    IF consumer_open
    THEN /\ data_chan' = Append(data_chan, h.publish)
         /\ Iterate(StreamEndOfIteration(h), IF h.tag = "resumed" THEN "resumed" ELSE "published")
    ELSE /\ data_chan' = data_chan
         /\ Iterate(StreamEndOfIteration([h EXCEPT !.need_reconnect = TRUE]), "consumer_gone")

\* StreamRecv that publishes with try_send: with the data channel full the
\* message is dropped and the listener goes on.
StreamRecv_TrySend(m) ==
    /\ kind = "stream" /\ pc = "select"
    /\ LET h == StreamOnMessage(pending_requests, res, m)
       IN  IF h.publish = "none" \/ (consumer_open /\ Len(data_chan) >= DataCap)
           THEN Iterate(StreamEndOfIteration(h), h.tag) /\ data_chan' = data_chan
           ELSE Published(h)
    /\ UNCHANGED <<callerVars, writes, queue, timeout_reconnect, consumer_open>>

\* select! reads a text frame that decodes to `m` (market-stream listener).
StreamRecv(m) ==
    /\ kind = "stream" /\ pc = "select"
    /\ LET h == StreamOnMessage(pending_requests, res, m)
       IN  IF h.publish = "none"
           THEN Iterate(StreamEndOfIteration(h), h.tag) /\ data_chan' = data_chan
           ELSE IF consumer_open /\ Len(data_chan) >= DataCap
           THEN /\ pc' = "publish"
                /\ held' = h.publish
                /\ last' = "publish_blocked"
                /\ UNCHANGED <<ws_stream_opt, pending_requests, res, data_chan>>
           ELSE Published(h)
    /\ UNCHANGED <<callerVars, writes, queue, timeout_reconnect, consumer_open>>

StreamRecvText == \E m \in { StreamDecode(f) : f \in Frames } : StreamRecv(m)

\* The blocked data_sender.send(msg).await completes: the consumer made
\* room or dropped the receiver.
PublishResume ==
    /\ pc = "publish"
    /\ ~consumer_open \/ Len(data_chan) < DataCap
    /\ Published(Handled(pending_requests, res, FALSE, FALSE, held, "resumed"))
    /\ UNCHANGED <<callerVars, writes, queue, timeout_reconnect, consumer_open>>

\* select! reads a text frame whose JSON value reads as `m` (api listener).
ApiRecv(m) ==
    /\ kind = "api" /\ pc = "select"
    /\ LET h == ApiOnMessage(pending_requests, res, m)
       IN  Iterate(ApiEndOfIteration(h), h.tag)
    /\ UNCHANGED <<callerVars, writes, queue, timeout_reconnect, data_chan, consumer_open>>

ApiRecvText == \E m \in { ApiDecode(f) : f \in Frames } : ApiRecv(m)

\* RecvIgnored that takes a frame it cannot decode for the loss of the
\* connection.
RecvIgnored_Lost ==
    /\ pc = "select"
    /\ LET h == OnLost(pending_requests, res)
       IN  Iterate(StreamEndOfIteration(h), "undecodable")
    /\ UNCHANGED <<callerVars, writes, queue, timeout_reconnect, data_chan, consumer_open>>

\* select! reads a binary, raw, ping or pong frame, or a text frame that is
\* not JSON: logged, nothing else.
RecvIgnored ==
    /\ pc = "select"
    /\ \E t \in {"ignored", "undecodable"} : last' = t
    /\ UNCHANGED <<callerVars, writes, queue, ws_stream_opt, pc, pending_requests,
                   timeout_reconnect, res, data_chan, consumer_open, held>>

\* StreamRecvLost that also fails the submissions waiting in the channel.
StreamRecvLost_FailQueued ==
    /\ kind = "stream" /\ pc = "select"
    /\ LET h == OnLost(pending_requests, res)
           r == [c \in Callers |->
                   IF \E i \in 1..Len(queue) : queue[i].tx = c
                   THEN Append(h.res[c], ConnectionLost) ELSE h.res[c]]
       IN  Iterate(StreamEndOfIteration([h EXCEPT !.res = r]), h.tag)
    /\ queue' = <<>>
    /\ UNCHANGED <<callerVars, writes, timeout_reconnect, data_chan, consumer_open>>

\* select! reads a close frame, a read error or the end of the stream.
StreamRecvLost ==
    /\ kind = "stream" /\ pc = "select"
    /\ LET h == OnLost(pending_requests, res)
       IN  Iterate(StreamEndOfIteration(h), h.tag)
    /\ UNCHANGED <<callerVars, writes, queue, timeout_reconnect, data_chan, consumer_open>>

ApiRecvLost ==
    /\ kind = "api" /\ pc = "select"
    /\ LET h == OnLost(pending_requests, res)
       IN  Iterate(ApiEndOfIteration(h), h.tag)
    /\ UNCHANGED <<callerVars, writes, queue, timeout_reconnect, data_chan, consumer_open>>

\* The 60 s sleep of the select! completes before any other branch is ready
\* (a request waiting in the channel makes the recv branch ready at once).
\* select! takes the recv branch and the request channel is closed and empty.
StreamChannelClosed ==
    /\ kind = "stream" /\ pc = "select" /\ client_dropped /\ queue = <<>>
    /\ LET h == OnChannelClosed(pending_requests, res)
       IN  Iterate(StreamEndOfIteration(h), h.tag)
    /\ UNCHANGED <<callerVars, writes, queue, timeout_reconnect, data_chan, consumer_open>>

ApiChannelClosed ==
    /\ kind = "api" /\ pc = "select" /\ client_dropped /\ queue = <<>>
    /\ LET h == OnChannelClosed(pending_requests, res)
       IN  Iterate(ApiEndOfIteration(h), h.tag)
    /\ UNCHANGED <<callerVars, writes, queue, timeout_reconnect, data_chan, consumer_open>>

\* StreamIdleTimeout whose sleep also runs while a publish is blocked.
StreamIdleTimeout_WhilePublishing ==
    /\ kind = "stream" /\ pc \in {"select", "publish"} /\ queue = <<>> /\ ~client_dropped
    /\ LET h == StreamOnIdle(pending_requests, res)
       IN  Iterate(StreamEndOfIteration(h), h.tag)
    /\ UNCHANGED <<callerVars, writes, queue, timeout_reconnect, data_chan, consumer_open>>

StreamIdleTimeout ==
    /\ kind = "stream" /\ pc = "select" /\ queue = <<>> /\ ~client_dropped
    /\ LET h == StreamOnIdle(pending_requests, res)
       IN  Iterate(StreamEndOfIteration(h), h.tag)
    /\ UNCHANGED <<callerVars, writes, queue, timeout_reconnect, data_chan, consumer_open>>

\* Same for the api listener: only `timeout_reconnect = true`.
ApiIdleTimeout ==
    /\ kind = "api" /\ pc = "select" /\ queue = <<>> /\ ~client_dropped
    /\ timeout_reconnect' = TRUE
    /\ LET h == Handled(pending_requests, res, FALSE, FALSE, "none", "idle_timeout")
       IN  Iterate(ApiEndOfIteration(h), h.tag)
    /\ UNCHANGED <<callerVars, writes, queue, data_chan, consumer_open>>

\* ---------------------------------------------------------------- consumer
\* The consumer takes the oldest message of the data channel.
ConsumerRecv ==
    /\ kind = "stream" /\ consumer_open /\ data_chan # <<>>
    /\ data_chan' = Tail(data_chan)
    /\ last' = last
    /\ UNCHANGED <<callerVars, writes, queue, ws_stream_opt, pc, pending_requests,
                   timeout_reconnect, res, consumer_open, held>>

\* The consumer drops the receiver; buffered messages go with it.
ConsumerDrop ==
    /\ kind = "stream" /\ consumer_open
    /\ consumer_open' = FALSE
    /\ data_chan' = <<>>
    /\ last' = last
    /\ UNCHANGED <<callerVars, writes, queue, ws_stream_opt, pc, pending_requests,
                   timeout_reconnect, res, held>>

Init ==
    /\ kind \in {"stream", "api"}
    /\ queue_cap = QueueCap
    /\ client_dropped = FALSE
    /\ calls = [c \in Callers |-> [st |-> "idle", id |-> 0]]
    /\ NEXT_ID = FirstId
    /\ queue = <<>>
    /\ ws_stream_opt = FALSE
    /\ pc = "connecting"
    /\ pending_requests = Empty
    /\ timeout_reconnect = FALSE
    /\ res = [c \in Callers |-> <<>>]
    /\ data_chan = <<>>
    /\ consumer_open = TRUE
    /\ held = "none"
    /\ writes = [c \in Callers |-> 0]
    /\ sign_in = [params |-> <<>>, timestamp |-> 1000, api_key |-> "k1", secret_key |-> "s1"]
    /\ sign_out = NotSigned
    /\ last = "init"

Next ==
    \/ \E c \in Callers : get_next_request_id(c)
    \/ \E c \in Callers : send_stream_request(c)
    \/ \E c \in Callers : request_websocket_api(c)
    \/ ConnectOk \/ ConnectFail \/ BackoffDone
    \/ StreamHandleRequest \/ ApiHandleRequest
    \/ StreamRecvText \/ ApiRecvText \/ RecvIgnored
    \/ StreamRecvLost \/ ApiRecvLost
    \/ StreamIdleTimeout \/ ApiIdleTimeout
    \/ PublishResume \/ ConsumerRecv \/ ConsumerDrop

Spec == Init /\ [][Next]_vars

\* The listener task is scheduled whenever it can run: a connect attempt
\* returns and one eventually succeeds, the backoff sleep ends, and select!,
\* which polls its branches in random order, does not pass over a branch that
\* is ready again and again: a request waiting in the channel is taken, the
\* idle sleep completes, and a publish that can complete does.  A caller that has its
\* id goes on to submit, the consumer keeps taking messages while it holds the
\* receiver, and the server keeps sending its periodic pings.  The server's
\* text frames are under no obligation.
FairSpec ==
    /\ Spec
    /\ WF_vars(ConnectOk \/ ConnectFail)
    /\ SF_vars(ConnectOk)
    /\ WF_vars(BackoffDone)
    /\ SF_vars(StreamHandleRequest)
    /\ SF_vars(ApiHandleRequest)
    /\ SF_vars(StreamIdleTimeout)
    /\ SF_vars(ApiIdleTimeout)
    /\ SF_vars(PublishResume)
    /\ WF_vars(ConsumerRecv)
    /\ WF_vars(RecvIgnored)
    /\ \A c \in Callers : WF_vars(send_stream_request(c))

\* Signed calls of one WebSocketClient, with its keys, one after the other;
\* the session is left aside.
SignInit ==
    /\ kind = "api"
    /\ queue_cap = QueueCap
    /\ client_dropped = FALSE
    /\ calls = [c \in Callers |-> [st |-> "idle", id |-> 0]]
    /\ NEXT_ID = FirstId
    /\ queue = <<>>
    /\ ws_stream_opt = FALSE
    /\ pc = "connecting"
    /\ pending_requests = Empty
    /\ timeout_reconnect = FALSE
    /\ res = [c \in Callers |-> <<>>]
    /\ data_chan = <<>>
    /\ consumer_open = TRUE
    /\ held = "none"
    /\ writes = [c \in Callers |-> 0]
    /\ sign_in \in [params : ParamSeqs, timestamp : Timestamps, api_key : ApiKeys,
                     secret_key : SecretKeys]
    /\ sign_out = NotSigned
    /\ last = "init"

SignNext == SignCall \/ Reinsert \/ SetParam \/ ClockTick

SignSpec == SignInit /\ [][SignNext]_vars

\* The client, its callers and its listener, up to and after the drop of the
\* client.
DropNext == Next \/ DropClient \/ StreamChannelClosed \/ ApiChannelClosed

DropSpec == Init /\ [][DropNext]_vars

\* The callers of a WebSocketClient cancel and modify orders; the listener
\* is left aside.
OrderInit == Init /\ kind = "api"

CancelOrder ==
    \E c \in Callers, symbol \in Symbols, order_id \in OrderIds, client_id \in ClientIds :
        cancel_order(c, symbol, order_id, client_id)

ModifyOrder ==
    \E c \in Callers, symbol \in Symbols, side \in Sides, order_id \in OrderIds,
       client_id \in ClientIds, mods \in Mods, new_id \in ClientIds :
        modify_order(c, symbol, side, order_id, client_id, mods, new_id)

OrderNext == CancelOrder \/ ModifyOrder

OrderSpec == OrderInit /\ [][OrderNext]_vars

\* Signed calls made through the WebSocketClient and through a RestClient
\* that holds the same keys.
RestNext == SignCall \/ RestCall \/ Reinsert \/ SetParam \/ ClockTick

RestSpec == SignInit /\ [][RestNext]_vars

\* Signed calls of one WebSocketClient whose caller also passes members named
\* timestamp, apiKey or signature.
ReservedInit ==
    /\ kind = "api"
    /\ queue_cap = QueueCap
    /\ client_dropped = FALSE
    /\ calls = [c \in Callers |-> [st |-> "idle", id |-> 0]]
    /\ NEXT_ID = FirstId
    /\ queue = <<>>
    /\ ws_stream_opt = FALSE
    /\ pc = "connecting"
    /\ pending_requests = Empty
    /\ timeout_reconnect = FALSE
    /\ res = [c \in Callers |-> <<>>]
    /\ data_chan = <<>>
    /\ consumer_open = TRUE
    /\ held = "none"
    /\ writes = [c \in Callers |-> 0]
    /\ sign_in \in [params : ReservedParamSeqs, timestamp : Timestamps, api_key : ApiKeys,
                     secret_key : SecretKeys]
    /\ sign_out = NotSigned
    /\ last = "init"

ReservedNext == SignCall \/ SetReserved \/ ClockTick

ReservedSpec == ReservedInit /\ [][ReservedNext]_vars

\* A facade call on another MarketStreamClient of the same process takes its
\* id from the same static NEXT_ID.
OtherInstanceMint ==
    /\ NEXT_ID - FirstId - Cardinality({c \in Callers : calls[c].st # "idle"}) < MaxOtherMints
    /\ NEXT_ID' = NEXT_ID + 1
    /\ UNCHANGED <<clientVars, calls, queue, ws_stream_opt, pc, pending_requests, timeout_reconnect,
                   res, data_chan, consumer_open, held, writes, signVars, last>>

\* The callers of one MarketStreamClient take ids and submit, while calls are
\* made on another MarketStreamClient of the process; the listener is left
\* aside.
MintInit == Init /\ kind = "stream"

MintNext ==
    \/ \E c \in Callers : get_next_request_id(c)
    \/ \E c \in Callers : send_stream_request(c)
    \/ OtherInstanceMint

MintSpec == MintInit /\ [][MintNext]_vars

\* A client whose request channel is small enough for its callers to fill:
\* the same callers and the same listener as in Spec, with the capacity
\* scaled down from QueueCap.
SmallQueueInit ==
    /\ kind \in {"stream", "api"}
    /\ queue_cap = SmallCap
    /\ client_dropped = FALSE
    /\ calls = [c \in Callers |-> [st |-> "idle", id |-> 0]]
    /\ NEXT_ID = FirstId
    /\ queue = <<>>
    /\ ws_stream_opt = FALSE
    /\ pc = "connecting"
    /\ pending_requests = Empty
    /\ timeout_reconnect = FALSE
    /\ res = [c \in Callers |-> <<>>]
    /\ data_chan = <<>>
    /\ consumer_open = TRUE
    /\ held = "none"
    /\ writes = [c \in Callers |-> 0]
    /\ sign_in = [params |-> <<>>, timestamp |-> 1000, api_key |-> "k1", secret_key |-> "s1"]
    /\ sign_out = NotSigned
    /\ last = "init"

SmallQueueSpec == SmallQueueInit /\ [][Next]_vars

\* The client with callers that may give up waiting for their response, and
\* with a consumer that keeps its receiver.
AbandonNext ==
    \/ \E c \in Callers : get_next_request_id(c)
    \/ \E c \in Callers : send_stream_request(c)
    \/ \E c \in Callers : request_websocket_api(c)
    \/ \E c \in Callers : Abandon(c)
    \/ ConnectOk \/ ConnectFail \/ BackoffDone
    \/ StreamHandleRequest \/ ApiHandleRequest
    \/ StreamRecvText \/ ApiRecvText \/ RecvIgnored
    \/ StreamRecvLost \/ ApiRecvLost
    \/ StreamIdleTimeout \/ ApiIdleTimeout
    \/ PublishResume \/ ConsumerRecv

AbandonSpec == Init /\ [][AbandonNext]_vars

\* ------------------------------------------------------------------ claims
Last(q) == q[Len(q)]

\* The listener takes the request at the head of the channel and its write fails.
WriteFailedStep == queue # <<>> /\ queue' = Tail(queue) /\ last' = "write_failed"

\* C2: in the market-stream listener, whenever the connection is lost every
\* entry then in the pending table is resolved with the connection-lost error,
\* exactly once, and the table is empty when the listener next connects.
C2_StreamLossDrainsPending ==
    [][kind = "stream" =>
        /\ (ws_stream_opt /\ ~ws_stream_opt') =>
              /\ pending_requests' = Empty
              /\ \A k \in DOMAIN pending_requests :
                    /\ res[pending_requests[k]] = <<>>
                    /\ res'[pending_requests[k]] = <<ConnectionLost>>
        /\ pc' = "connecting" => pending_requests' = Empty
        /\ \A c \in Callers : Len(res'[c]) <= 1]_vars

\* Two requests were pending when the server closed the connection.
C2_Witness ==
    /\ kind = "stream" /\ last = "lost" /\ pc = "connecting"
    /\ res[1] = <<ConnectionLost>> /\ res[2] = <<ConnectionLost>>

\* C3: in the api listener, whenever the connection is lost every entry then
\* in the pending table is resolved with a connection-lost error, exactly
\* once, and the table is cleared before the next connect attempt.
C3_ApiLossDrainsPending ==
    [][kind = "api" =>
        /\ (ws_stream_opt /\ ~ws_stream_opt') =>
              /\ pending_requests' = Empty
              /\ \A k \in DOMAIN pending_requests :
                    /\ res[pending_requests[k]] = <<>>
                    /\ Len(res'[pending_requests[k]]) = 1
                    /\ res'[pending_requests[k]][1].tag = "Err"
        /\ pc' = "connecting" => pending_requests' = Empty]_vars

\* C8: when the write of a submission's frame fails, its caller is resolved at
\* once and exactly once with the send-failure error, no other caller is
\* resolved, and the submission is not, and never will be, in the pending table.
C8_WriteFailureResolvesCaller ==
    [][/\ WriteFailedStep =>
            LET req == Head(queue)
            IN  /\ res[req.tx] = <<>>
                /\ res'[req.tx] \in {<<SendFailed>>, <<ApiSendFailed>>}
                /\ req.id \notin DOMAIN pending_requests'
                /\ \A d \in Callers \ {req.tx} : res'[d] = res[d]
       /\ \A c \in Callers :
            (res[c] # <<>> /\ res[c][1] \in {SendFailed, ApiSendFailed}) =>
                /\ res'[c] = res[c]
                /\ calls[c].id \notin DOMAIN pending_requests']_vars

\* A write has just failed and its caller holds the send-failure error.
C8_Witness ==
    /\ last = "write_failed"
    /\ \E c \in Callers : res[c] \in {<<SendFailed>>, <<ApiSendFailed>>}

\* C9: after a failed write the listener drops the connection and goes
\* through a connect attempt before it handles anything else.
C9_WriteFailureReconnects ==
    [][WriteFailedStep => (~ws_stream_opt' /\ pc' = "connecting")]_vars

\* C10: in the market-stream listener, when the idle sleep completes while
\* connected, the connection is dropped, and the listener's next step from
\* there is a connect attempt.
C10_StreamIdleForcesReconnect ==
    [][kind = "stream" =>
        /\ (pc = "select" /\ ws_stream_opt /\ last' = "idle_timeout") =>
              (~ws_stream_opt' /\ pc' = "connecting" /\ pending_requests' = Empty)
        /\ (last = "idle_timeout" /\ last' # last) =>
              (pc = "connecting" /\ last' \in {"connected", "connect_failed"})]_vars

\* The idle sleep expired on an open connection with a request pending.
C10_Witness ==
    /\ kind = "stream" /\ last = "idle_timeout" /\ ~ws_stream_opt /\ pc = "connecting"
    /\ \E c \in Callers : res[c] = <<ConnectionLost>>

\* The listener reads the text frame f from the socket.
Recv(f) == StreamRecv(StreamDecode(f)) \/ ApiRecv(ApiDecode(f))

\* Wire shapes: a success frame is {"result": v, "id": i} for stream commands
\* and {"id": i, "status": 200, "result": v} for api calls; an error frame is
\* {"id": i, "error": {"code", "msg"}} or {"code", "msg", "id": i}.
IsSuccessFrame(f) ==
    /\ ~f.stream /\ f.error = "none" /\ f.msg = "none" /\ f.idk = "token"
    /\ f.status = (IF kind = "api" THEN "200" ELSE "none")
IsErrorFrame(f) ==
    /\ ~f.stream /\ f.result = "none" /\ f.status = "none"
    /\ f.error # "none" \/ f.msg # "none"
ErrorMsg(f) == IF f.error # "none" THEN f.error ELSE f.msg
InTable(f) == f.idk = "token" /\ f.id \in DOMAIN pending_requests

\* C5: with two requests pending, the response that bears the id of one of
\* them resolves that caller with the response's payload and leaves the other
\* pending; a caller is given a success value only by a frame bearing its id.
C5_MatchedByIdNotPosition ==
    [][/\ \A f \in Frames : \A i \in DOMAIN pending_requests :
            (IsSuccessFrame(f) /\ InTable(f) /\ i # f.id /\ Recv(f)) =>
                /\ res'[pending_requests[f.id]] = <<Ok(UnwrapOrDefault(f.result))>>
                /\ f.id \notin DOMAIN pending_requests'
                /\ i \in DOMAIN pending_requests'
                /\ pending_requests'[i] = pending_requests[i]
                /\ res'[pending_requests[i]] = res[pending_requests[i]]
       /\ \A c \in Callers :
            (res'[c] # res[c] /\ Last(res'[c]).tag = "Ok") =>
                \E f \in Frames : f.idk = "token" /\ f.id = calls[c].id /\ Recv(f)]_vars

\* Ids 1 and 2 were pending, the response to 2 came first: its caller has the
\* payload and the caller of 1 is still pending.
C5_Witness ==
    /\ last = "resolved"
    /\ 1 \in DOMAIN pending_requests /\ res[pending_requests[1]] = <<>>
    /\ \E c \in Callers : calls[c].id = 2 /\ res[c] = <<Ok("v1")>>

\* C6: a result or error frame whose id is not in the pending table, or an
\* error frame without id, resolves no caller, leaves the table unchanged,
\* leaves the connection open and the listener running.
C6_UnmatchedFrameDiscarded ==
    [][\A f \in Frames :
          (/\ IsSuccessFrame(f) \/ IsErrorFrame(f)
           /\ f.idk \in {"token", "absent"}
           /\ ~InTable(f)
           /\ Recv(f)) =>
              /\ res' = res
              /\ pending_requests' = pending_requests
              /\ ws_stream_opt'
              /\ pc' = "select"]_vars

\* C7: in the market-stream listener an error frame, of either form, whose id
\* is pending resolves that caller with a failure carrying the server's
\* message, and resolves no other caller.
C7_ErrorFrameFailsItsCaller ==
    [][\A f \in Frames :
          (kind = "stream" /\ IsErrorFrame(f) /\ InTable(f) /\ Recv(f)) =>
              LET c == pending_requests[f.id]
              IN  /\ Len(res'[c]) = 1
                  /\ res'[c][1].tag = "Err"
                  /\ res'[c][1].text = ErrorMsg(f)
                  /\ \A d \in Callers \ {c} : res'[d] = res[d]]_vars

\* C1: every submitted call is resolved, exactly once, through its own id:
\* never twice, and not left without a resolution.
C1_EachCallResolvedOnce ==
    \A c \in Callers :
        /\ [](Len(res[c]) <= 1)
        /\ [](res[c] # <<>> => calls[c].id \notin DOMAIN pending_requests)
        /\ Waiting(c) ~> (Len(res[c]) = 1)

\* C4: a facade call never stays suspended for ever: once invoked it
\* eventually has a resolution.
C4_EveryCallEventuallyResolves ==
    \A c \in Callers : (calls[c].st # "idle") ~> (res[c] # <<>> \/ calls[c].st = "failed")

\* C11: in the api listener, when the idle sleep completes while connected,
\* the connection is dropped and the listener goes on to a connect attempt.
C11_ApiIdleForcesReconnect ==
    [][(ApiIdleTimeout /\ ws_stream_opt) => (~ws_stream_opt' /\ pc' = "connecting")]_vars

\* C12: an api call that is pending does not stay pending for ever: it is
\* resolved, by its response or else by its deadline, and its entry leaves
\* the table.
C12_PendingApiCallTimesOut ==
    \A c \in Callers :
        (kind = "api" /\ Waiting(c) /\ calls[c].id \in DOMAIN pending_requests)
            ~> (res[c] # <<>> /\ calls[c].id \notin DOMAIN pending_requests)

\* C13: a frame that carries both `stream` and an `id` is a stream event: it
\* resolves no caller and removes no entry, also when its id is pending, and
\* the market-stream listener forwards it to the data channel.
C13_StreamFieldTakesPrecedence ==
    [][\A f \in Frames :
          (f.stream /\ f.idk = "token" /\ Recv(f)) =>
              /\ res' = res
              /\ pending_requests' = pending_requests
              /\ (kind = "stream" /\ consumer_open) =>
                    \/ data_chan' = Append(data_chan, "StreamData")
                    \/ held' = "StreamData"]_vars

\* A JSON frame of none of the shapes: no `id`, no `stream`, no error.
IsUnrecognized(f) ==
    ~f.stream /\ f.idk \in {"absent", "null"} /\ f.error = "none" /\ f.msg = "none"

\* C15: a frame of none of the known shapes is discarded: nothing enters the
\* data channel, no caller is resolved, and the pending table and the
\* connection are as before.
C15_UnrecognizedFrameDiscarded ==
    [][\A f \in Frames :
          (IsUnrecognized(f) /\ Recv(f)) =>
              /\ data_chan' = data_chan
              /\ held' = "none"
              /\ res' = res
              /\ pending_requests' = pending_requests
              /\ ws_stream_opt' = ws_stream_opt
              /\ pc' = pc]_vars

\* Sequence a is an initial part of sequence b.
IsPrefix(a, b) == Len(a) <= Len(b) /\ SubSeq(b, 1, Len(a)) = a

\* The frames that the market-stream listener takes for stream data.
StreamDataFrames == {f \in Frames : StreamDecode(f).variant = "StreamData"}

InQueue(c) == \E i \in 1..Len(queue) : queue[i].tx = c

\* The listener takes a submission from the request channel.
Dequeues == Len(queue') < Len(queue)

C17_FifoOneEventPerIteration ==
    [][/\ Len(queue') > Len(queue) => \E c \in Callers :
             queue' = Append(queue, [id |-> calls[c].id', tx |-> c])
       /\ Dequeues =>
             LET req == Head(queue)
             IN  /\ queue' = Tail(queue)
                 /\ data_chan' = data_chan /\ held' = held
                 /\ \A d \in Callers \ {req.tx} : res'[d] = res[d]
                 /\ \/ /\ last' = "written"
                       /\ pending_requests' = Insert(pending_requests, req.id, req.tx)
                       /\ res' = res
                    \/ /\ last' = "write_failed"
                       /\ pending_requests' = pending_requests
                       /\ res'[req.tx] \in {<<SendFailed>>, <<ApiSendFailed>>}
       /\ (\/ queue' # queue
           \/ consumer_open /\ Cardinality({c \in Callers : res'[c] # res[c]}) > 1) =>
             ~(StreamRecvText \/ ApiRecvText)
       /\ (StreamIdleTimeout \/ ApiIdleTimeout) =>
             (queue' = queue /\ data_chan' = data_chan)]_vars

\* The caller holding id 2 submitted before the caller holding id 1: the
\* listener has written request 2 and request 1 is still in the channel.
C17_Witness ==
    /\ kind = "stream" /\ last = "written"
    /\ DOMAIN pending_requests = {2}
    /\ Len(queue) = 1 /\ queue[1].id = 1

\* C18: the listener writes at most one frame for a submission; every frame
\* it writes is that of the submission it takes from the channel in that
\* step; connecting writes nothing; and a submission enters the channel once,
\* from its caller, never again after it was written.
C18_NoResendNoReplay ==
    [][/\ \A c \in Callers : writes[c] <= 1
       /\ writes' # writes =>
             /\ pc = "select" /\ queue # <<>> /\ queue' = Tail(queue)
             /\ writes' = [writes EXCEPT ![Head(queue).tx] = 1]
       /\ pc \in {"connecting", "backoff"} => writes' = writes
       /\ Len(queue') > Len(queue) =>
             /\ writes[Last(queue').tx] = 0
             /\ ~InQueue(Last(queue').tx)]_vars

\* The connection was lost with a written request pending, and the listener
\* has connected again: the request, failed by the loss, was written once.
C18_Witness ==
    /\ last = "connected" /\ ws_stream_opt
    /\ \E c \in Callers : writes[c] = 1 /\ res[c] = <<ConnectionLost>>

\* Connection states of the listener as the program holds them.
Connected == ws_stream_opt /\ pc \in {"select", "publish"}
Connecting == ~ws_stream_opt /\ pc = "connecting"
BackingOff == ~ws_stream_opt /\ pc = "backoff"

\* C19: the listener is connecting, backing off or connected; it becomes
\* connected only by a connect attempt that succeeds; a failed attempt is
\* followed by the backoff wait and then by another attempt, with no limit
\* on the attempts; a connection is left only for a new attempt; and without
\* a connection nothing is dequeued, routed or resolved.
C19_ConnectionStateMachine ==
    [][/\ Connected \/ Connecting \/ BackingOff
       /\ (~Connected /\ Connected') => (Connecting /\ last' = "connected")
       /\ (Connecting /\ pc' # pc) => (Connected' \/ (BackingOff' /\ last' = "connect_failed"))
       /\ last' = "connect_failed" /\ last' # last => (Connecting /\ BackingOff')
       /\ (BackingOff /\ pc' # pc) => Connecting'
       /\ (Connected /\ ~Connected') => Connecting'
       /\ Connecting => ENABLED ConnectOk /\ ENABLED ConnectFail
       /\ BackingOff => ENABLED BackoffDone
       /\ ~Connected =>
             /\ IsPrefix(queue, queue')
             /\ UNCHANGED <<res, pending_requests, writes>>
             /\ Len(data_chan') <= Len(data_chan)]_vars

\* A connect attempt failed and the backoff is over while a submission is
\* waiting: the listener is about to try again.
C19_Witness ==
    /\ last = "backoff_done" /\ Connecting
    /\ queue # <<>>

\* The same members in every order of insertion.
Reorderings(q) ==
    { [i \in 1..Len(q) |-> q[f[i]]] : f \in Permutations(1..Len(q)) }

\* The map, clock and keys of a call, whatever the order of insertion.
Arguments(in) ==
    [members |-> {in.params[i] : i \in 1..Len(in.params)}, timestamp |-> in.timestamp,
     api_key |-> in.api_key, secret_key |-> in.secret_key]

\* C20: signing is deterministic: a signed call signs the string, and yields
\* the signature, that the same map, timestamp and keys give in every order
\* of insertion, whatever was signed before.
C20_SigningDeterministic ==
    [][sign_out' # sign_out =>
          \A q \in Reorderings(sign_in'.params) :
              LET in == [sign_in' EXCEPT !.params = q]
              IN  /\ sign_out'.query_string = query_string(in)
                  /\ sign_out'.signature = sign_payload(in.secret_key, query_string(in))]_vars

\* A call that inserted `symbol` before `price` signed the sorted string.
C20_Witness ==
    /\ sign_out.signed
    /\ Len(sign_in.params) = 2 /\ sign_in.params[1].k = "symbol"
    /\ sign_out.query_string = "apiKey=k1&price=5&symbol=7&timestamp=1000"
    /\ sign_out.signature = "hmac_sha256(s2,apiKey=k1&price=5&symbol=7&timestamp=1000)"

RECURSIVE Text(_)
Text(chars) == IF chars = <<>> THEN "" ELSE Head(chars) \o Text(Tail(chars))

\* The entry of key k in the canonical string of the call `in`, "" if none.
Entry(in, k) ==
    IF k = "timestamp" THEN "timestamp=" \o ToString(in.timestamp)
    ELSE IF k = "apiKey" THEN "apiKey=" \o in.api_key
    ELSE IF \E i \in 1..Len(in.params) : in.params[i].k = k
    THEN LET i == CHOOSE i \in 1..Len(in.params) : in.params[i].k = k
         IN  k \o "=" \o Text(in.params[i].v.v)
    ELSE ""

\* The non-empty entries of keys[n..], joined with "&".
RECURSIVE Canonical(_, _, _)
Canonical(in, keys, n) ==
    IF n > Len(keys) THEN ""
    ELSE LET rest == Canonical(in, keys, n + 1)
             e == Entry(in, keys[n])
         IN  IF e = "" THEN rest ELSE IF rest = "" THEN e ELSE e \o "&" \o rest

\* C22: the signed string is made of one `key=value` for each member the
\* caller passed, one for timestamp and one for apiKey, and nothing else,
\* the value without quotes, in ascending order of the keys, joined with "&".
C22_CanonicalString ==
    [][sign_out' # sign_out =>
          /\ sign_out'.query_string = Canonical(sign_in', KeyOrder, 1)
          /\ sign_out'.signature = sign_payload(sign_in'.secret_key, sign_out'.query_string)]_vars

\* A call with a string and a number, inserted against the key order.
C22_Witness ==
    /\ sign_out.signed
    /\ sign_in.params = <<[k |-> "symbol", v |-> JsonStr(<<"7">>)],
                          [k |-> "price", v |-> JsonNum(<<"5">>)]>>
    /\ sign_in.timestamp = 2000
    /\ sign_out.query_string = "apiKey=k1&price=5&symbol=7&timestamp=2000"

\* Caller c's call has just returned the error of a failed signing.
FailsToBuild(c) == calls[c].st = "idle" /\ calls'[c].st = "failed"

\* C23: a call that fails while its signed parameters are built returns
\* its error and leaves everything else as it is: nothing enters the request
\* channel, the pending table, the resolutions, the connection and the other
\* callers are unchanged, and the call is never registered afterwards.
C23_BuildFailureFailsOnlyThatCall ==
    [][\A c \in Callers :
          /\ FailsToBuild(c) =>
                /\ UNCHANGED <<queue, pending_requests, res, ws_stream_opt, pc, writes>>
                /\ \A d \in Callers \ {c} : calls'[d] = calls[d]
          /\ calls[c].st = "failed" =>
                /\ calls'[c] = calls[c]
                /\ ~InQueue(c) /\ calls[c].id \notin DOMAIN pending_requests
                /\ res[c] = <<>> /\ writes[c] = 0]_vars

\* One call failed while being built; the call of the other caller is
\* pending on the open connection.
C23_Witness ==
    /\ kind = "api" /\ ws_stream_opt
    /\ \E c, d \in Callers :
          /\ calls[c].st = "failed"
          /\ Waiting(d) /\ calls[d].id \in DOMAIN pending_requests /\ res[d] = <<>>

\* Caller c takes its id in this step.
Mints(c) == calls[c].st = "idle" /\ calls'[c].st = "minted"

\* C24: the ids of the calls made are pairwise distinct, an id taken is
\* greater than every id taken before, an entry of the pending table is under
\* the id of its own call, and registering a request never replaces an entry.
C24_OnePendingEntryPerId ==
    [][/\ \A c, d \in Callers :
             (c # d /\ calls[c].st \notin {"idle", "failed"} /\ calls[d].st \notin {"idle", "failed"})
                 => calls[c].id # calls[d].id
       /\ \A c \in Callers : Mints(c) =>
             \A d \in Callers : calls[d].st # "idle" => calls'[c].id > calls[d].id
       /\ \A k \in DOMAIN pending_requests : calls[pending_requests[k]].id = k
       /\ \A k \in DOMAIN pending_requests' \ DOMAIN pending_requests :
             /\ queue # <<>> /\ Head(queue).id = k
             /\ pending_requests' = Insert(pending_requests, k, Head(queue).tx)
       /\ \A k \in DOMAIN pending_requests \cap DOMAIN pending_requests' :
             pending_requests'[k] = pending_requests[k]]_vars

\* Two stream commands of concurrent callers are pending under the ids 1 and 2.
C24_Witness ==
    /\ kind = "stream" /\ DOMAIN pending_requests = {1, 2}
    /\ pending_requests[1] # pending_requests[2]

\* C25: the ids that the callers of one MarketStreamClient are given are
\* FirstId, FirstId + 1, .. in the order in which they take them, whatever
\* calls are made on another MarketStreamClient of the process.
C25_IdCounterPerInstance ==
    [][\A c \in Callers : Mints(c) =>
          calls'[c].id = FirstId + Cardinality({d \in Callers : calls[d].st # "idle"})]_vars

\* The success value that carries the `result` member of frame f.
ResultOf(f) == IF f.result = "none" THEN Ok("null") ELSE Ok(f.result)

\* C26: in the api listener a frame with status 200 whose id is pending
\* resolves that call with success carrying the frame's `result`, removes
\* its entry and leaves the other entries and callers as they are.
C26_ApiSuccessCarriesResult ==
    [][\A f \in Frames :
          (kind = "api" /\ f.status = "200" /\ InTable(f) /\ Recv(f)) =>
              LET c == pending_requests[f.id]
              IN  /\ res[c] = <<>> /\ res'[c] = <<ResultOf(f)>>
                  /\ pending_requests' = Remove(pending_requests, f.id)
                  /\ \A d \in Callers \ {c} : res'[d] = res[d]]_vars

\* An api call was answered with status 200 and the result v1 while the
\* other call stays pending.
C26_Witness ==
    /\ kind = "api" /\ last = "resolved"
    /\ \E c, d \in Callers :
          /\ res[c] = <<Ok("v1")>> /\ calls[c].id \notin DOMAIN pending_requests
          /\ res[d] = <<>> /\ calls[d].id \in DOMAIN pending_requests

\* C27: in the market-stream listener the result frame that bears the id of
\* a pending command resolves it with success carrying the frame's `result`,
\* JSON null when the result is null or absent, and removes its entry.
C27_StreamCommandCarriesResult ==
    [][\A f \in Frames :
          (kind = "stream" /\ IsSuccessFrame(f) /\ InTable(f) /\ Recv(f)) =>
              LET c == pending_requests[f.id]
              IN  /\ calls[c].id = f.id
                  /\ res[c] = <<>> /\ res'[c] = <<ResultOf(f)>>
                  /\ pending_requests' = Remove(pending_requests, f.id)]_vars

\* A stream command was answered by a result frame with a null result.
C27_Witness ==
    /\ kind = "stream" /\ last = "resolved"
    /\ \E c \in Callers : res[c] = <<Ok("null")>> /\ calls[c].id \notin DOMAIN pending_requests

\* C30: a text frame that is not valid JSON is logged and discarded: no
\* caller and no stream consumer receives anything, and the pending table
\* and the connection are as before.
C30_UndecodableFrameDiscarded ==
    [][(pc = "select" /\ last # "undecodable" /\ last' = "undecodable") =>
          UNCHANGED <<res, data_chan, held, pending_requests, ws_stream_opt, pc>>]_vars

\* An undecodable frame was read while a call was pending on an open
\* connection.
C30_Witness ==
    /\ last = "undecodable" /\ ws_stream_opt /\ pc = "select"
    /\ \E c \in Callers : calls[c].id \in DOMAIN pending_requests /\ res[c] = <<>>

\* The request of caller c, as it enters the request channel.
Submission(c) == [id |-> calls[c].id, tx |-> c]
Full == Len(queue) = queue_cap
\* Caller c's request is accepted by the channel in this step.
Accepted(c) == calls[c].st # "waiting" /\ calls'[c].st = "waiting"

\* C28: the request channel never holds more than its capacity; a caller
\* that submits while it is full stays suspended, unresolved and unrejected,
\* and can submit as soon as there is room; a submission is accepted only by
\* entering the channel at its end, and leaves it only at its head, taken by
\* the listener.
C28_BoundedQueueSuspendsCaller ==
    /\ [](Len(queue) <= queue_cap)
    /\ [](\A c \in Callers :
            /\ (kind = "stream" /\ calls[c].st = "minted") =>
                  /\ res[c] = <<>> /\ ~InQueue(c)
                  /\ ENABLED send_stream_request(c) <=> ~Full
            /\ (kind = "api" /\ calls[c].st = "idle") =>
                  (ENABLED (request_websocket_api(c) /\ Waiting(c)') <=> ~Full))
    /\ [][/\ \A c \in Callers :
               /\ Accepted(c) => ~Full /\ queue' = Append(queue, Submission(c)')
               /\ (kind = "stream" /\ calls[c].st = "minted") =>
                     calls'[c].st \in {"minted", "waiting"} /\ res'[c] = <<>>
          /\ queue' # queue =>
               \/ \E c \in Callers : Accepted(c)
               \/ queue # <<>> /\ queue' = Tail(queue) /\ Dequeues]_vars

\* The channel is full and a caller that has its id is suspended in send,
\* behind a submission the listener has not taken yet.
C28_Witness ==
    /\ kind = "stream" /\ Full /\ queue # <<>>
    /\ \E c \in Callers : calls[c].st = "minted" /\ ~InQueue(c) /\ res[c] = <<>>

Abandoned(c) == calls[c].st = "abandoned"
\* The entries of the pending table that belong to callers that gave up.
Orphans == {k \in DOMAIN pending_requests : Abandoned(pending_requests[k])}

Failures == {"connect_failed", "write_failed", "lost", "undecodable"}
\* The positions of the listener inside its loop.
LoopPositions == {"connecting", "backoff", "select", "publish"}

\* C31: no transport or protocol failure ends the listener loop: the listener
\* is always at a position of its loop, after a failure it has a next step to
\* take (connect, end its backoff, or read), and whenever it is in select!
\* (`ws_stream_opt.as_mut().unwrap()`) the connection is present.
C31_FailuresContained ==
    /\ pc \in LoopPositions
    /\ pc \in {"select", "publish"} => ws_stream_opt
    /\ last \in Failures =>
          /\ pc \in {"connecting", "backoff", "select"}
          /\ ENABLED (ConnectOk \/ BackoffDone \/ RecvIgnored)

\* A write failed and the listener is back in select! on the connection it
\* still holds, with a call pending.
C31_Witness ==
    /\ last = "write_failed" /\ pc = "select" /\ ws_stream_opt
    /\ pending_requests # Empty

\* C32: the REST signer and the WebSocket signer canonicalize alike: a
\* signed call made through either signs the string, and yields the signature,
\* that the WebSocket signer gives for the same members, timestamp and keys.
C32_RestSignsSameString ==
    [][sign_out' # sign_out =>
          /\ sign_out'.query_string = query_string(sign_in')
          /\ sign_out'.signature = SignRequest(sign_in').signature]_vars

\* The listener is suspended in `data_sender.send(..).await`.
Publishing == pc = "publish"
\* The steps of select!: a request taken, a frame or a loss read, the idle sleep.
SelectStep ==
    \/ StreamHandleRequest \/ StreamRecvText \/ RecvIgnored
    \/ StreamRecvLost \/ StreamIdleTimeout

\* C33: while the listener is blocked publishing to the full data channel
\* no branch of select! can run (no request is taken or written, no frame is
\* read, the idle sleep does not fire), nothing is resolved and the table and
\* the connection stay as they are; the publish, and select! after it, goes
\* on exactly when the consumer has made room (or has dropped its receiver).
C33_PublishBackPressuresConnection ==
    /\ [](Publishing =>
            /\ kind = "stream" /\ held # "none" /\ ws_stream_opt
            /\ ~ENABLED SelectStep
            /\ ENABLED PublishResume <=> (~consumer_open \/ Len(data_chan) < DataCap))
    /\ [][(Publishing /\ Publishing') =>
             /\ UNCHANGED <<res, pending_requests, writes, ws_stream_opt, held>>
             /\ IsPrefix(queue, queue')
             /\ Len(data_chan') <= Len(data_chan)]_vars
    /\ [][(Publishing /\ ~Publishing' /\ consumer_open) =>
             /\ Len(data_chan) < DataCap /\ data_chan' = Append(data_chan, held)
             /\ pc' = "select" /\ ws_stream_opt'
             /\ UNCHANGED <<res, pending_requests, writes, queue>>]_vars

\* The listener is blocked publishing while a submission waits in the
\* request channel and a call is pending.
C33_Witness ==
    /\ Publishing /\ consumer_open /\ Len(data_chan) = DataCap
    /\ queue # <<>> /\ pending_requests # Empty

\* C34: once the listener has found the request channel closed it exits: it
\* makes no connect attempt and reads nothing from the socket any more.
C34_ClosedChannelEndsListener ==
    [][last = "channel_closed" => UNCHANGED <<pc, ws_stream_opt, pending_requests, res, last>>]_vars

\* The frames the market-stream listener hands to the consumer: stream
\* events and frames of no recognized form.
ForConsumer(f) == StreamDecode(f).variant \in {"StreamData", "Raw"}

\* C35: with the consumer's receiver dropped, a stream event or an
\* unrecognized frame read by the market-stream listener is treated as the
\* loss of the connection: the connection is dropped, every pending request
\* is resolved with the connection-lost error, the table is emptied and the
\* listener goes to connect again.
C35_ConsumerGoneDropsConnection ==
    [][/\ (kind = "stream" /\ pc = "select" /\ ~consumer_open /\ last' # "consumer_gone") =>
             \A f \in Frames : ForConsumer(f) => ~Recv(f)
       /\ last' = "consumer_gone" /\ last # "consumer_gone" =>
             /\ ~consumer_open /\ ws_stream_opt
             /\ ~ws_stream_opt' /\ pc' = "connecting"
             /\ pending_requests' = Empty
             /\ res' = Drain(pending_requests, res)
             /\ \A k \in DOMAIN pending_requests :
                    Last(res'[pending_requests[k]]) = ConnectionLost]_vars

\* A stream event arrived after the consumer dropped its receiver: the
\* connection is gone and the call that was pending failed.
C35_Witness ==
    /\ kind = "stream" /\ last = "consumer_gone" /\ ~consumer_open
    /\ ~ws_stream_opt /\ pc = "connecting" /\ pending_requests = Empty
    /\ \E c \in Callers : writes[c] = 1 /\ res[c] = <<ConnectionLost>>

\* The keys of the members a signed call passed.
Keys(params) == {params[i].k : i \in 1..Len(params)}
\* Caller c's facade call returns or submits in this step.
Calls(c) == calls[c].st = "idle" /\ calls'[c].st # "idle"
ModKeys == {ModNames[n] : n \in 1..Len(ModNames)}

\* The members that name the order.
Identifiers(params) == Keys(params) \cap {"orderId", "origClientOrderId"}

\* What cancel_order and modify_order do with given arguments: they return
\* early exactly when no identifier (or, for modify_order, no field to amend)
\* was given, and otherwise name the order by orderId if it was given, else
\* by origClientOrderId.
Validated(order_id, client_id, built, valid) ==
    /\ built.ok <=> valid
    /\ valid => Identifiers(built.params) =
                   (IF order_id # "none" THEN {"orderId"} ELSE {"origClientOrderId"})

\* C36: cancel_order without any identifier, and modify_order without any
\* identifier or without any field to amend, return an error and submit
\* nothing: the request channel and everything behind it are untouched.  A
\* call that is submitted names the order by exactly one identifier, orderId
\* when both were given, and a modification amends at least one field.
C36_OrderCallsValidated ==
    /\ [](\A symbol \in Symbols, order_id \in OrderIds, client_id \in ClientIds :
            /\ Validated(order_id, client_id,
                         cancel_order_params(symbol, order_id, client_id),
                         order_id # "none" \/ client_id # "none")
            /\ \A side \in Sides, mods \in Mods, new_id \in ClientIds :
                  Validated(order_id, client_id,
                            modify_order_params(symbol, side, order_id, client_id, mods, new_id),
                            (order_id # "none" \/ client_id # "none") /\ mods # {}))
    /\ [][\A c \in Callers :
            /\ (Calls(c) /\ calls'[c].st = "failed") =>
                  UNCHANGED <<queue, pending_requests, writes, res, signVars>>
            /\ (Calls(c) /\ Waiting(c)') =>
                  /\ queue' = Append(queue, [id |-> calls'[c].id, tx |-> c])
                  /\ Cardinality(Identifiers(sign_in'.params)) = 1
                  /\ "side" \in Keys(sign_in'.params) =>
                        Keys(sign_in'.params) \cap ModKeys # {}
                  /\ sign_out' = SignRequest(sign_in')]_vars

\* One caller's cancel_order without identifiers returned its error, the
\* other's call, which names the order by orderId, is in the request channel.
C36_Witness ==
    /\ kind = "api"
    /\ \E c, d \in Callers :
          /\ calls[c].st = "failed" /\ calls[c].id = 0 /\ ~InQueue(c)
          /\ Waiting(d) /\ InQueue(d) /\ "orderId" \in Keys(sign_in.params)
    /\ sign_out.query_string = "apiKey=k1&orderId=5&symbol=B&timestamp=1000"

\* The error of the api listener for frame f: "WebSocket API error: " and
\* the `msg` of the frame's `error`, or "Unknown error".
ErrorOf(f) == ApiError(IF f.error # "none" THEN f.error ELSE "Unknown error")

\* C37: in the api listener a frame whose id is pending resolves the caller
\* with success if and only if its status is 200; every other such frame,
\* with another status or with none, with a `result` or without, resolves it
\* with the error of the frame's error.msg, or of "Unknown error".
C37_SuccessIffStatus200 ==
    [][\A f \in Frames :
          (kind = "api" /\ pc = "select" /\ InTable(f) /\ Recv(f)) =>
              LET c == pending_requests[f.id]
              IN  /\ res'[c] = Append(res[c], IF f.status = "200" THEN ResultOf(f) ELSE ErrorOf(f))
                  /\ Last(res'[c]).tag = "Ok" <=> f.status = "200"
                  /\ f.id \notin DOMAIN pending_requests']_vars

\* An api call was answered by a frame without status and without error
\* message: it failed with "Unknown error".
C37_Witness ==
    /\ kind = "api" /\ last = "resolved"
    /\ \E c \in Callers :
          /\ res[c] = <<ApiError("Unknown error")>>
          /\ writes[c] = 1 /\ calls[c].id \notin DOMAIN pending_requests

\* Caller c's frame was written and its call has no resolution yet.
AwaitsResponse(c) == writes[c] = 1 /\ res[c] = <<>>

\* C38: the step that writes a request's frame registers its entry, before
\* the listener is back in select!; from then until the call is resolved the
\* entry is in the table, so a frame that answers a written request always
\* finds its entry and resolves its caller.
C38_RegisteredWithTheWrite ==
    /\ [](\A c \in Callers :
            AwaitsResponse(c) =>
                calls[c].id \in DOMAIN pending_requests /\ pending_requests[calls[c].id] = c)
    /\ [][/\ \A c \in Callers :
               (last' = "written" /\ writes'[c] # writes[c]) =>
                   /\ calls[c].id \notin DOMAIN pending_requests
                   /\ pending_requests' = Insert(pending_requests, calls[c].id, c)
                   /\ queue # <<>> /\ Head(queue).tx = c /\ queue' = Tail(queue)
          /\ \A c \in Callers :
               LET f == Frame([idk |-> "token", id |-> calls[c].id], "none", "none", "none",
                              "none", FALSE)
               IN  (AwaitsResponse(c) /\ pc = "select" /\ Recv(f)) =>
                       /\ res'[c] # <<>>
                       /\ calls[c].id \notin DOMAIN pending_requests']_vars

\* A request was written in the last step and is registered, while the
\* other caller's request still waits in the channel.
C38_Witness ==
    /\ last = "written" /\ pc = "select"
    /\ \E c, d \in Callers :
          /\ AwaitsResponse(c) /\ pending_requests[calls[c].id] = c
          /\ InQueue(d) /\ writes[d] = 0

\* C39: in the market-stream listener the pending table is empty whenever
\* there is no connection, so the listener arrives at the connect block, and
\* every new connection starts, with an empty table; an entry is added only
\* by the step that writes its frame on the open connection.
C39_NoConnectionNoEntries ==
    /\ []((kind = "stream" /\ ~ws_stream_opt) =>
             /\ pending_requests = Empty
             /\ pc \in {"connecting", "backoff"})
    /\ [][kind = "stream" =>
             /\ (~ws_stream_opt /\ ws_stream_opt') => pending_requests' = Empty
             /\ \A k \in DOMAIN pending_requests' \ DOMAIN pending_requests :
                    /\ ws_stream_opt /\ ws_stream_opt' /\ last' = "written"
                    /\ writes'[pending_requests'[k]] = writes[pending_requests'[k]] + 1]_vars

\* The market-stream listener lost the connection with a request pending
\* and failed to connect again: it sleeps with an empty table while another
\* submission waits.
C39_Witness ==
    /\ kind = "stream" /\ pc = "backoff" /\ ~ws_stream_opt
    /\ pending_requests = Empty /\ queue # <<>>
    /\ \E c \in Callers : writes[c] = 1 /\ res[c] = <<ConnectionLost>>

\* C40: the caller's values for members named timestamp, apiKey or signature
\* reach neither the outbound frame nor the signed string: the frame carries
\* the client's timestamp, api key and computed signature under those names,
\* and two signed calls that differ only in the caller's value of such a
\* member sign the same string and send the same params.
C40_ReservedOverwritten ==
    /\ [](sign_out.signed /\ sign_out = SignRequest(sign_in) =>
             /\ request_params(sign_in)["apiKey"] = JsonStr(<<sign_in.api_key>>)
             /\ request_params(sign_in)["timestamp"] = JsonNum(<<ToString(sign_in.timestamp)>>)
             /\ request_params(sign_in)["signature"] = JsonStr(<<sign_out.signature>>))
    /\ [][(\E i \in 1..Len(sign_in.params) :
              /\ sign_in.params[i].k \in Reserved
              /\ sign_in'.params[i].v # sign_in.params[i].v
              /\ sign_in' = [sign_in EXCEPT !.params[i].v = sign_in'.params[i].v]) =>
             /\ SignRequest(sign_in').query_string = SignRequest(sign_in).query_string
             /\ request_params(sign_in') = request_params(sign_in)]_vars

====
